---- MODULE Spec2Model ----
(***************************************************************************)
(* BorneoTrace ledger core: CertificateNFT and BatchNFT                    *)
(* (src/contracts/contracts/*.sol), deployed directly by one account as    *)
(* the test suite does (src/contracts/test/Certification.ts:20-27), or     *)
(* created by Registry / SimpleRegistry (Registry.sol) through             *)
(* deployContracts.                                                        *)
(*                                                                         *)
(* One action per external function.  Each function is a chain of requires *)
(* followed by its writes: the operator <f>Err gives the message of the    *)
(* first require that fails ("ok" if none does), the action <f> performs   *)
(* the writes when it is "ok" and otherwise reverts, leaving the storage   *)
(* as it was.  The variable last tells whether the latest call went        *)
(* through.                                                                *)
(*                                                                         *)
(* A mapping is a total function whose unwritten slots hold the zero       *)
(* value, as in Solidity: a never issued certificate id reads as a record  *)
(* with status Active (enum value 0) and expiry 0.                         *)
(*                                                                         *)
(* A Batch keeps every field but creationTimestamp, which createBatch      *)
(* writes from block.timestamp and no function reads; productType, unit,   *)
(* harvestTimestamp, originInfo and metadataURI, which no require looks    *)
(* at, are created with one value each.  Of the                            *)
(* inherited ERC721 interface, transferFrom by the token's owner is        *)
(* modelled for batch tokens; approvals move tokens in the same way.  The  *)
(* owner of the two contracts is the account or registry that created     *)
(* them.                                                                   *)
(***************************************************************************)
EXTENDS Integers, Sequences, FiniteSets, TLC

\* ------------------------------------------------------------------ bounds
MaxCerts == 1        \* certificates that may be minted
MaxBatches == 1      \* batches that may be created
MaxTime == 3         \* last block timestamp explored

\* ------------------------------------------------------------- input sets
ZeroAddress == "0x0"
Deployer == "owner"
Principals == {"owner", "alice", "bob"}
Addresses == Principals \cup {ZeroAddress}

\* The addresses of a registry contract and of the CertificateNFT it deploys.
RegistryAddress == "registry"
DeployedAddress == "deployed"

CertIds == 0..MaxCerts        \* MaxCerts itself is never issued
BatchIds == 0..MaxBatches     \* MaxBatches itself is never assigned

RoleCallers == {"owner", "alice"}
RoleTargets == {ZeroAddress, "alice"}

\* linkedCertificateIds arguments: no id, one id, two ids (equal or not).
CertIdLists ==
    {<<>>} \cup {<<a>> : a \in CertIds} \cup {<<a, b>> : a \in CertIds, b \in CertIds}

\* Arguments of mintCertificate <<certIdString, certifiedEntityAddress,
\* validityPeriod>>: a well-formed call, and one call for each require.
MintArgs ==
    {<<"X", "alice", 1>>, <<"", "alice", 1>>, <<"X", ZeroAddress, 1>>, <<"X", "alice", 0>>}

\* Arguments of createBatch <<batchId, quantity, linkedCertificateIds>>: a
\* well-formed batch with every list of certificate ids, and one call for
\* each require on the batch's own fields.
CreateArgs ==
    {<<"X", 1, l>> : l \in CertIdLists} \cup {<<"", 1, <<>>>>, <<"X", 0, <<>>>>}

\* The descriptive arguments of createBatch, which no require looks at: one
\* value each.
Descriptive ==
    [productType |-> "Palm Oil", unit |-> "kg", harvestTimestamp |-> 1,
     originInfo |-> "Tawau, Sabah", metadataURI |-> "ipfs://QmAbc"]

\* ------------------------------------------------------------------ state
VARIABLES
    now,                    \* block.timestamp
    certNextTokenId,        \* CertificateNFT._nextTokenId
    certificates,           \* CertificateNFT._certificates
    certOwners,             \* CertificateNFT: ERC721 _owners
    authorizedCertifiers,   \* CertificateNFT._authorizedCertifiers
    batchNextTokenId,       \* BatchNFT._nextTokenId
    batches,                \* BatchNFT._batches
    batchOwners,            \* BatchNFT: ERC721 _owners
    pendingVerification,    \* BatchNFT._pendingVerification
    authorizedProducers,    \* BatchNFT._authorizedProducers
    authorizedVerifiers,    \* BatchNFT._authorizedVerifiers
    batchVerified,          \* BatchNFT: number of BatchVerified events per token
    certificateContract,    \* Registry.certificateContract (and batchContract)
    certifiers,             \* Registry.certifiers
    producers,              \* Registry.producers
    verifiers,              \* Registry.verifiers
    last                    \* the most recent call and its outcome

certVars == <<certNextTokenId, certificates, certOwners, authorizedCertifiers>>
batchVars == <<batchNextTokenId, batches, batchOwners, pendingVerification,
               authorizedProducers, authorizedVerifiers, batchVerified>>
\* Contract storage (the event log is not storage).
ledger == <<certNextTokenId, certificates, certOwners, authorizedCertifiers,
            batchNextTokenId, batches, batchOwners, pendingVerification,
            authorizedProducers, authorizedVerifiers>>
registryVars == <<certificateContract, certifiers, producers, verifiers>>
vars == <<now, registryVars, certVars, batchVars, last>>

\* Ownable(msg.sender): both contracts are owned by whoever constructed
\* them, the deployer or the registry whose deployContracts created them.
owner == IF certificateContract = ZeroAddress THEN Deployer ELSE RegistryAddress

\* A storage slot that was never written reads as zero.
EmptyCertificate ==
    [certIdString |-> "", issuer |-> ZeroAddress, certifiedEntityAddress |-> ZeroAddress,
     issueTimestamp |-> 0, expiryTimestamp |-> 0, status |-> "Active"]

EmptyBatch ==
    [batchId |-> "", creator |-> ZeroAddress, productType |-> "", quantity |-> 0,
     unit |-> "", harvestTimestamp |-> 0, originInfo |-> "",
     status |-> "PendingVerification", linkedCertificateIds |-> <<>>,
     currentOwner |-> ZeroAddress, metadataURI |-> ""]

Init ==
    /\ now = 1
    /\ certNextTokenId = 0
    /\ certificates = [c \in CertIds |-> EmptyCertificate]
    /\ certOwners = [c \in CertIds |-> ZeroAddress]
    /\ authorizedCertifiers = {Deployer}
    /\ batchNextTokenId = 0
    /\ batches = [b \in BatchIds |-> EmptyBatch]
    /\ batchOwners = [b \in BatchIds |-> ZeroAddress]
    /\ pendingVerification = [b \in BatchIds |-> FALSE]
    /\ authorizedProducers = {Deployer}
    /\ authorizedVerifiers = {Deployer}
    /\ batchVerified = [b \in BatchIds |-> 0]
    /\ certificateContract = ZeroAddress
    /\ certifiers = {}
    /\ producers = {}
    /\ verifiers = {}
    /\ last = "ok"

\* What the caller observes of a call: it went through, or it reverted.
Outcome(name, res) == IF res = "ok" THEN "ok" ELSE "reverted"

\* --------------------------------------------------------- block timestamp
Tick ==
    /\ now < MaxTime
    /\ now' = now + 1
    /\ UNCHANGED <<registryVars, certVars, batchVars, last>>

\* ---------------------------------------------------------- CertificateNFT
authorizeCertifierErr(caller, certifier) ==
    IF caller # owner THEN "OwnableUnauthorizedAccount"
    ELSE IF certifier = ZeroAddress THEN "Invalid certifier address"
    ELSE IF certifier \in authorizedCertifiers THEN "Already authorized"
    ELSE "ok"

authorizeCertifier(caller, certifier) ==
    LET res == authorizeCertifierErr(caller, certifier) IN
    /\ last' = Outcome("authorizeCertifier", res)
    /\ authorizedCertifiers' =
           IF res = "ok" THEN authorizedCertifiers \cup {certifier} ELSE authorizedCertifiers
    /\ UNCHANGED <<now, registryVars, certNextTokenId, certificates, certOwners, batchVars>>

revokeCertifierErr(caller, certifier) ==
    IF caller # owner THEN "OwnableUnauthorizedAccount"
    ELSE IF certifier \notin authorizedCertifiers THEN "Not an authorized certifier"
    ELSE "ok"

revokeCertifier(caller, certifier) ==
    LET res == revokeCertifierErr(caller, certifier) IN
    /\ last' = Outcome("revokeCertifier", res)
    /\ authorizedCertifiers' =
           IF res = "ok" THEN authorizedCertifiers \ {certifier} ELSE authorizedCertifiers
    /\ UNCHANGED <<now, registryVars, certNextTokenId, certificates, certOwners, batchVars>>

mintCertificateErr(caller, certIdString, certifiedEntityAddress, validityPeriod) ==
    IF caller \notin authorizedCertifiers THEN "Not authorized as certifier"
    ELSE IF certIdString = "" THEN "Certificate ID cannot be empty"
    ELSE IF certifiedEntityAddress = ZeroAddress THEN "Invalid certified entity address"
    ELSE IF validityPeriod <= 0 THEN "Validity period must be greater than 0"
    ELSE IF certNextTokenId \in CertIds /\ certOwners[certNextTokenId] # ZeroAddress
         THEN "ERC721InvalidSender"
    ELSE "ok"

\* A mintCertificate that stamps the certificate with the executing node's
\* own clock, which may run ahead of the block timestamp.
mintCertificateUpToLocalClock(cap, caller, certIdString, certifiedEntityAddress, validityPeriod) ==
    LET res == mintCertificateErr(caller, certIdString, certifiedEntityAddress, validityPeriod)
        newTokenId == certNextTokenId
    IN
    /\ res = "ok" => certNextTokenId < cap
    /\ last' = Outcome("mintCertificate", res)
    /\ IF res = "ok"
       THEN /\ certNextTokenId' = certNextTokenId + 1
            /\ certOwners' = [certOwners EXCEPT ![newTokenId] = certifiedEntityAddress]
            /\ \E clock \in {now, now + 1} :
                   certificates' = [certificates EXCEPT ![newTokenId] =
                       [certIdString |-> certIdString,
                        issuer |-> caller,
                        certifiedEntityAddress |-> certifiedEntityAddress,
                        issueTimestamp |-> clock,
                        expiryTimestamp |-> clock + validityPeriod,
                        status |-> "Active"]]
       ELSE UNCHANGED <<certNextTokenId, certOwners, certificates>>
    /\ UNCHANGED <<now, registryVars, authorizedCertifiers, batchVars>>

\* mintCertificate, explored while fewer than cap certificates exist.
mintCertificateUpTo(cap, caller, certIdString, certifiedEntityAddress, validityPeriod) ==
    LET res == mintCertificateErr(caller, certIdString, certifiedEntityAddress, validityPeriod)
        newTokenId == certNextTokenId
    IN
    /\ res = "ok" => certNextTokenId < cap
    /\ last' = Outcome("mintCertificate", res)
    /\ IF res = "ok"
       THEN /\ certNextTokenId' = certNextTokenId + 1
            /\ certOwners' = [certOwners EXCEPT ![newTokenId] = certifiedEntityAddress]
            /\ certificates' = [certificates EXCEPT ![newTokenId] =
                   [certIdString |-> certIdString,
                    issuer |-> caller,
                    certifiedEntityAddress |-> certifiedEntityAddress,
                    issueTimestamp |-> now,
                    expiryTimestamp |-> now + validityPeriod,
                    status |-> "Active"]]
       ELSE UNCHANGED <<certNextTokenId, certOwners, certificates>>
    /\ UNCHANGED <<now, registryVars, authorizedCertifiers, batchVars>>

\* mintCertificate storing the validity period as the expiry.
mintCertificatePeriodAsExpiry(caller, certIdString, certifiedEntityAddress, validityPeriod) ==
    LET res == mintCertificateErr(caller, certIdString, certifiedEntityAddress, validityPeriod)
        newTokenId == certNextTokenId
    IN
    /\ res = "ok" => certNextTokenId < MaxCerts
    /\ last' = Outcome("mintCertificate", res)
    /\ IF res = "ok"
       THEN /\ certNextTokenId' = certNextTokenId + 1
            /\ certOwners' = [certOwners EXCEPT ![newTokenId] = certifiedEntityAddress]
            /\ certificates' = [certificates EXCEPT ![newTokenId] =
                   [certIdString |-> certIdString,
                    issuer |-> caller,
                    certifiedEntityAddress |-> certifiedEntityAddress,
                    issueTimestamp |-> now,
                    expiryTimestamp |-> validityPeriod,
                    status |-> "Active"]]
       ELSE UNCHANGED <<certNextTokenId, certOwners, certificates>>
    /\ UNCHANGED <<now, registryVars, authorizedCertifiers, batchVars>>

mintCertificate(caller, certIdString, certifiedEntityAddress, validityPeriod) ==
    mintCertificateUpTo(MaxCerts, caller, certIdString, certifiedEntityAddress, validityPeriod)

\* revokeCertificate without its status require.
revokeCertificateErrAnyStatus(caller, tokenId) ==
    LET cert == certificates[tokenId] IN
    IF ~(cert.issuer = caller \/ owner = caller) THEN "Only issuer or owner can revoke"
    ELSE "ok"

revokeCertificateErr(caller, tokenId) ==
    LET cert == certificates[tokenId] IN
    IF ~(cert.issuer = caller \/ owner = caller) THEN "Only issuer or owner can revoke"
    ELSE IF cert.status # "Active" THEN "Certificate not active"
    ELSE "ok"

revokeCertificate(caller, tokenId) ==
    LET res == revokeCertificateErr(caller, tokenId) IN
    /\ last' = Outcome("revokeCertificate", res)
    /\ certificates' =
           IF res = "ok" THEN [certificates EXCEPT ![tokenId].status = "Revoked"]
           ELSE certificates
    /\ UNCHANGED <<now, registryVars, certNextTokenId, certOwners, authorizedCertifiers, batchVars>>

\* isValid has no require: it answers for every tokenId.
isValidErr(tokenId) == "ok"

\* isValid looking at the status alone.
isValidStatusOnly(tokenId) ==
    LET cert == certificates[tokenId] IN
    cert.status = "Active"

\* isValid with the expiry second itself excluded.
isValidBeforeExpiry(tokenId) ==
    LET cert == certificates[tokenId] IN
    cert.status = "Active" /\ now < cert.expiryTimestamp

\* isValid with the comparison against the expiry turned around.
isValidFromExpiry(tokenId) ==
    LET cert == certificates[tokenId] IN
    cert.status = "Active" /\ now >= cert.expiryTimestamp

isValid(tokenId) ==
    LET cert == certificates[tokenId] IN
    cert.status = "Active" /\ now <= cert.expiryTimestamp

\* ---------------------------------------------------------------- BatchNFT
_exists(tokenId) == batchOwners[tokenId] # ZeroAddress

ownerOf(tokenId) == batchOwners[tokenId]

authorizeProducerErr(caller, producer) ==
    IF caller # owner THEN "OwnableUnauthorizedAccount"
    ELSE IF producer = ZeroAddress THEN "Invalid producer address"
    ELSE IF producer \in authorizedProducers THEN "Already authorized"
    ELSE "ok"

authorizeProducer(caller, producer) ==
    LET res == authorizeProducerErr(caller, producer) IN
    /\ last' = Outcome("authorizeProducer", res)
    /\ authorizedProducers' =
           IF res = "ok" THEN authorizedProducers \cup {producer} ELSE authorizedProducers
    /\ UNCHANGED <<now, registryVars, certVars, batchNextTokenId, batches, batchOwners,
                   pendingVerification, authorizedVerifiers,
                   batchVerified>>

\* revokeProducer without the onlyOwner modifier.
revokeProducerErrAnyCaller(caller, producer) ==
    IF producer \notin authorizedProducers THEN "Not an authorized producer"
    ELSE "ok"

revokeProducerErr(caller, producer) ==
    IF caller # owner THEN "OwnableUnauthorizedAccount"
    ELSE IF producer \notin authorizedProducers THEN "Not an authorized producer"
    ELSE "ok"

revokeProducer(caller, producer) ==
    LET res == revokeProducerErr(caller, producer) IN
    /\ last' = Outcome("revokeProducer", res)
    /\ authorizedProducers' =
           IF res = "ok" THEN authorizedProducers \ {producer} ELSE authorizedProducers
    /\ UNCHANGED <<now, registryVars, certVars, batchNextTokenId, batches, batchOwners,
                   pendingVerification, authorizedVerifiers,
                   batchVerified>>

authorizeVerifierErr(caller, verifier) ==
    IF caller # owner THEN "OwnableUnauthorizedAccount"
    ELSE IF verifier = ZeroAddress THEN "Invalid verifier address"
    ELSE IF verifier \in authorizedVerifiers THEN "Already authorized"
    ELSE "ok"

authorizeVerifier(caller, verifier) ==
    LET res == authorizeVerifierErr(caller, verifier) IN
    /\ last' = Outcome("authorizeVerifier", res)
    /\ authorizedVerifiers' =
           IF res = "ok" THEN authorizedVerifiers \cup {verifier} ELSE authorizedVerifiers
    /\ UNCHANGED <<now, registryVars, certVars, batchNextTokenId, batches, batchOwners,
                   pendingVerification, authorizedProducers,
                   batchVerified>>

revokeVerifierErr(caller, verifier) ==
    IF caller # owner THEN "OwnableUnauthorizedAccount"
    ELSE IF verifier \notin authorizedVerifiers THEN "Not an authorized verifier"
    ELSE "ok"

revokeVerifier(caller, verifier) ==
    LET res == revokeVerifierErr(caller, verifier) IN
    /\ last' = Outcome("revokeVerifier", res)
    /\ authorizedVerifiers' =
           IF res = "ok" THEN authorizedVerifiers \ {verifier} ELSE authorizedVerifiers
    /\ UNCHANGED <<now, registryVars, certVars, batchNextTokenId, batches, batchOwners,
                   pendingVerification, authorizedProducers,
                   batchVerified>>

\* The validation loop stopping after the first entry.
FirstCertificateValid(linkedCertificateIds) ==
    \A i \in 1..Len(linkedCertificateIds) : i = 1 => isValid(linkedCertificateIds[i])

\* The validation loop of createBatch: every entry must pass isValid.
AllCertificatesValid(linkedCertificateIds) ==
    \A i \in 1..Len(linkedCertificateIds) : isValid(linkedCertificateIds[i])

\* createBatch without the onlyAuthorizedProducer modifier.
createBatchErrAnyCaller(caller, batchId, quantity, linkedCertificateIds) ==
    IF batchId = "" THEN "Batch ID cannot be empty"
    ELSE IF quantity <= 0 THEN "Quantity must be greater than 0"
    ELSE IF ~AllCertificatesValid(linkedCertificateIds) THEN "Invalid or expired certificate"
    ELSE "ok"

createBatchErr(caller, batchId, quantity, linkedCertificateIds) ==
    IF caller \notin authorizedProducers THEN "Not authorized as producer"
    ELSE IF batchId = "" THEN "Batch ID cannot be empty"
    ELSE IF quantity <= 0 THEN "Quantity must be greater than 0"
    ELSE IF ~AllCertificatesValid(linkedCertificateIds) THEN "Invalid or expired certificate"
    ELSE "ok"

\* createBatch reading the counter without advancing it.
createBatchUpToReusesId(cap, caller, batchId, quantity, linkedCertificateIds) ==
    LET res == createBatchErr(caller, batchId, quantity, linkedCertificateIds)
        newTokenId == batchNextTokenId
    IN
    /\ res = "ok" => batchNextTokenId < cap
    /\ last' = Outcome("createBatch", res)
    /\ IF res = "ok"
       THEN /\ batches' = [batches EXCEPT ![newTokenId] =
                   [batchId |-> batchId,
                    creator |-> caller,
                    productType |-> Descriptive.productType,
                    quantity |-> quantity,
                    unit |-> Descriptive.unit,
                    harvestTimestamp |-> Descriptive.harvestTimestamp,
                    originInfo |-> Descriptive.originInfo,
                    status |-> "PendingVerification",
                    linkedCertificateIds |-> linkedCertificateIds,
                    currentOwner |-> caller,
                    metadataURI |-> Descriptive.metadataURI]]
            /\ pendingVerification' = [pendingVerification EXCEPT ![newTokenId] = TRUE]
       ELSE UNCHANGED <<batches, pendingVerification>>
    /\ UNCHANGED <<now, registryVars, certVars, batchNextTokenId, batchOwners, authorizedProducers,
                   authorizedVerifiers, batchVerified>>

\* createBatch, explored while fewer than cap batches exist.
createBatchUpTo(cap, caller, batchId, quantity, linkedCertificateIds) ==
    LET res == createBatchErr(caller, batchId, quantity, linkedCertificateIds)
        newTokenId == batchNextTokenId
    IN
    /\ res = "ok" => batchNextTokenId < cap
    /\ last' = Outcome("createBatch", res)
    /\ IF res = "ok"
       THEN /\ batchNextTokenId' = batchNextTokenId + 1
            /\ batches' = [batches EXCEPT ![newTokenId] =
                   [batchId |-> batchId,
                    creator |-> caller,
                    productType |-> Descriptive.productType,
                    quantity |-> quantity,
                    unit |-> Descriptive.unit,
                    harvestTimestamp |-> Descriptive.harvestTimestamp,
                    originInfo |-> Descriptive.originInfo,
                    status |-> "PendingVerification",
                    linkedCertificateIds |-> linkedCertificateIds,
                    currentOwner |-> caller,
                    metadataURI |-> Descriptive.metadataURI]]
            /\ pendingVerification' = [pendingVerification EXCEPT ![newTokenId] = TRUE]
       ELSE UNCHANGED <<batchNextTokenId, batches, pendingVerification>>
    /\ UNCHANGED <<now, registryVars, certVars, batchOwners, authorizedProducers, authorizedVerifiers,
                   batchVerified>>

\* createBatch taking the identifier before it validates, and keeping it.
createBatchKeepsId(caller, batchId, quantity, linkedCertificateIds) ==
    LET res == createBatchErr(caller, batchId, quantity, linkedCertificateIds)
        newTokenId == batchNextTokenId
    IN
    /\ batchNextTokenId < MaxBatches
    /\ last' = Outcome("createBatch", res)
    /\ batchNextTokenId' = batchNextTokenId + 1
    /\ IF res = "ok"
       THEN /\ batches' = [batches EXCEPT ![newTokenId] =
                   [batchId |-> batchId,
                    creator |-> caller,
                    productType |-> Descriptive.productType,
                    quantity |-> quantity,
                    unit |-> Descriptive.unit,
                    harvestTimestamp |-> Descriptive.harvestTimestamp,
                    originInfo |-> Descriptive.originInfo,
                    status |-> "PendingVerification",
                    linkedCertificateIds |-> linkedCertificateIds,
                    currentOwner |-> caller,
                    metadataURI |-> Descriptive.metadataURI]]
            /\ pendingVerification' = [pendingVerification EXCEPT ![newTokenId] = TRUE]
       ELSE UNCHANGED <<batches, pendingVerification>>
    /\ UNCHANGED <<now, registryVars, certVars, batchOwners, authorizedProducers, authorizedVerifiers,
                   batchVerified>>

createBatch(caller, batchId, quantity, linkedCertificateIds) ==
    createBatchUpTo(MaxBatches, caller, batchId, quantity, linkedCertificateIds)

\* verifyBatch validating the linked certificates again.
verifyBatchErrValidLinks(caller, tokenId) ==
    IF caller \notin authorizedVerifiers THEN "Not authorized as verifier"
    ELSE IF ~pendingVerification[tokenId] THEN "Batch not pending verification"
    ELSE IF ~AllCertificatesValid(batches[tokenId].linkedCertificateIds)
         THEN "Invalid or expired certificate"
    ELSE IF batches[tokenId].creator = ZeroAddress THEN "ERC721InvalidReceiver"
    ELSE IF batchOwners[tokenId] # ZeroAddress THEN "ERC721InvalidSender"
    ELSE "ok"

\* _mint(batch.creator, tokenId) reverts for the zero address and for a
\* token that already has an owner.
verifyBatchErr(caller, tokenId) ==
    IF caller \notin authorizedVerifiers THEN "Not authorized as verifier"
    ELSE IF ~pendingVerification[tokenId] THEN "Batch not pending verification"
    ELSE IF batches[tokenId].creator = ZeroAddress THEN "ERC721InvalidReceiver"
    ELSE IF batchOwners[tokenId] # ZeroAddress THEN "ERC721InvalidSender"
    ELSE "ok"

\* A verifyBatch that mints the token to the verifier.
verifyBatchMintsToVerifier(caller, tokenId) ==
    LET res == verifyBatchErr(caller, tokenId) IN
    /\ last' = Outcome("verifyBatch", res)
    /\ IF res = "ok"
       THEN /\ batchOwners' = [batchOwners EXCEPT ![tokenId] = caller]
            /\ batches' = [batches EXCEPT ![tokenId].status = "Active"]
            /\ pendingVerification' = [pendingVerification EXCEPT ![tokenId] = FALSE]
            /\ batchVerified' = [batchVerified EXCEPT ![tokenId] = @ + 1]
       ELSE UNCHANGED <<batchOwners, batches, pendingVerification, batchVerified>>
    /\ UNCHANGED <<now, registryVars, certVars, batchNextTokenId, authorizedProducers,
                   authorizedVerifiers>>

verifyBatch(caller, tokenId) ==
    LET res == verifyBatchErr(caller, tokenId) IN
    /\ last' = Outcome("verifyBatch", res)
    /\ IF res = "ok"
       THEN /\ batchOwners' = [batchOwners EXCEPT ![tokenId] = batches[tokenId].creator]
            /\ batches' = [batches EXCEPT ![tokenId].status = "Active"]
            /\ pendingVerification' = [pendingVerification EXCEPT ![tokenId] = FALSE]
            /\ batchVerified' = [batchVerified EXCEPT ![tokenId] = @ + 1]
       ELSE UNCHANGED <<batchOwners, batches, pendingVerification, batchVerified>>
    /\ UNCHANGED <<now, registryVars, certVars, batchNextTokenId, authorizedProducers, authorizedVerifiers>>

\* transferBatch without its status require.
transferBatchErrAnyStatus(caller, tokenId, to) ==
    IF ~_exists(tokenId) THEN "Batch does not exist"
    ELSE IF ownerOf(tokenId) # caller THEN "Not the owner of the batch"
    ELSE IF to = ZeroAddress THEN "Invalid recipient address"
    ELSE "ok"

transferBatchErr(caller, tokenId, to) ==
    IF ~_exists(tokenId) THEN "Batch does not exist"
    ELSE IF ownerOf(tokenId) # caller THEN "Not the owner of the batch"
    ELSE IF to = ZeroAddress THEN "Invalid recipient address"
    ELSE IF ~(batches[tokenId].status = "Active" \/ batches[tokenId].status = "InTransit")
         THEN "Batch not active or in transit"
    ELSE "ok"

\* transferBatch moving the token without recording the new holder.
transferBatchKeepsOwner(caller, tokenId, to) ==
    LET res == transferBatchErr(caller, tokenId, to) IN
    /\ last' = Outcome("transferBatch", res)
    /\ IF res = "ok"
       THEN /\ batchOwners' = [batchOwners EXCEPT ![tokenId] = to]
            /\ batches' = [batches EXCEPT ![tokenId].status = "Received"]
       ELSE UNCHANGED <<batchOwners, batches>>
    /\ UNCHANGED <<now, registryVars, certVars, batchNextTokenId, pendingVerification,
                   authorizedProducers, authorizedVerifiers,
                   batchVerified>>

transferBatch(caller, tokenId, to) ==
    LET res == transferBatchErr(caller, tokenId, to) IN
    /\ last' = Outcome("transferBatch", res)
    /\ IF res = "ok"
       THEN /\ batchOwners' = [batchOwners EXCEPT ![tokenId] = to]
            /\ batches' = [batches EXCEPT ![tokenId].status = "Received",
                                          ![tokenId].currentOwner = to]
       ELSE UNCHANGED <<batchOwners, batches>>
    /\ UNCHANGED <<now, registryVars, certVars, batchNextTokenId, pendingVerification,
                   authorizedProducers, authorizedVerifiers,
                   batchVerified>>

\* markAsInTransit without its status require.
markAsInTransitErrAnyStatus(caller, tokenId) ==
    IF ~_exists(tokenId) THEN "Batch does not exist"
    ELSE IF ownerOf(tokenId) # caller THEN "Not the owner of the batch"
    ELSE "ok"

\* markAsInTransit without its owner require.
markAsInTransitErrAnyCaller(caller, tokenId) ==
    IF ~_exists(tokenId) THEN "Batch does not exist"
    ELSE IF batches[tokenId].status # "Active" THEN "Batch not active"
    ELSE "ok"

markAsInTransitErr(caller, tokenId) ==
    IF ~_exists(tokenId) THEN "Batch does not exist"
    ELSE IF ownerOf(tokenId) # caller THEN "Not the owner of the batch"
    ELSE IF batches[tokenId].status # "Active" THEN "Batch not active"
    ELSE "ok"

markAsInTransit(caller, tokenId) ==
    LET res == markAsInTransitErr(caller, tokenId) IN
    /\ last' = Outcome("markAsInTransit", res)
    /\ batches' = IF res = "ok" THEN [batches EXCEPT ![tokenId].status = "InTransit"]
                  ELSE batches
    /\ UNCHANGED <<now, registryVars, certVars, batchNextTokenId, batchOwners, pendingVerification,
                   authorizedProducers, authorizedVerifiers,
                   batchVerified>>

\* cancelBatch testing that the id was assigned instead of that its token
\* was minted.
cancelBatchErrAssigned(caller, tokenId) ==
    LET batch == batches[tokenId] IN
    IF ~(tokenId < batchNextTokenId) THEN "Batch does not exist"
    ELSE IF ~(batch.creator = caller \/ batch.currentOwner = caller \/ owner = caller)
         THEN "Not authorized to cancel"
    ELSE IF batch.status = "Cancelled" THEN "Batch already cancelled"
    ELSE "ok"

\* cancelBatch without its caller require.
cancelBatchErrAnyCaller(caller, tokenId) ==
    LET batch == batches[tokenId] IN
    IF ~_exists(tokenId) THEN "Batch does not exist"
    ELSE IF batch.status = "Cancelled" THEN "Batch already cancelled"
    ELSE "ok"

\* cancelBatch without its existence require.
cancelBatchErrNoExistence(caller, tokenId) ==
    LET batch == batches[tokenId] IN
    IF ~(batch.creator = caller \/ batch.currentOwner = caller \/ owner = caller)
    THEN "Not authorized to cancel"
    ELSE IF batch.status = "Cancelled" THEN "Batch already cancelled"
    ELSE "ok"

cancelBatchErr(caller, tokenId) ==
    LET batch == batches[tokenId] IN
    IF ~_exists(tokenId) THEN "Batch does not exist"
    ELSE IF ~(batch.creator = caller \/ batch.currentOwner = caller \/ owner = caller)
         THEN "Not authorized to cancel"
    ELSE IF batch.status = "Cancelled" THEN "Batch already cancelled"
    ELSE "ok"

cancelBatch(caller, tokenId) ==
    LET res == cancelBatchErr(caller, tokenId) IN
    /\ last' = Outcome("cancelBatch", res)
    /\ batches' = IF res = "ok" THEN [batches EXCEPT ![tokenId].status = "Cancelled"]
                  ELSE batches
    /\ UNCHANGED <<now, registryVars, certVars, batchNextTokenId, batchOwners, pendingVerification,
                   authorizedProducers, authorizedVerifiers,
                   batchVerified>>

\* The scan of linkCertificate over the ids already linked.
alreadyLinked(linkedCertificateIds, certificateId) ==
    \E i \in 1..Len(linkedCertificateIds) : linkedCertificateIds[i] = certificateId

\* linkCertificate without its validity require.
linkCertificateErrUnchecked(caller, tokenId, certificateId) ==
    LET batch == batches[tokenId] IN
    IF ~_exists(tokenId) THEN "Batch does not exist"
    ELSE IF ~(batch.creator = caller \/ batch.currentOwner = caller)
         THEN "Not authorized to link certificate"
    ELSE IF alreadyLinked(batch.linkedCertificateIds, certificateId)
         THEN "Certificate already linked"
    ELSE "ok"

linkCertificateErr(caller, tokenId, certificateId) ==
    LET batch == batches[tokenId] IN
    IF ~_exists(tokenId) THEN "Batch does not exist"
    ELSE IF ~(batch.creator = caller \/ batch.currentOwner = caller)
         THEN "Not authorized to link certificate"
    ELSE IF ~isValid(certificateId) THEN "Invalid or expired certificate"
    ELSE IF alreadyLinked(batch.linkedCertificateIds, certificateId)
         THEN "Certificate already linked"
    ELSE "ok"

\* A linkCertificate that puts the new id at the head of the list.
linkCertificatePrepends(caller, tokenId, certificateId) ==
    LET res == linkCertificateErr(caller, tokenId, certificateId) IN
    /\ last' = Outcome("linkCertificate", res)
    /\ batches' =
           IF res = "ok"
           THEN [batches EXCEPT ![tokenId].linkedCertificateIds = <<certificateId>> \o @]
           ELSE batches
    /\ UNCHANGED <<now, registryVars, certVars, batchNextTokenId, batchOwners, pendingVerification,
                   authorizedProducers, authorizedVerifiers,
                   batchVerified>>

linkCertificate(caller, tokenId, certificateId) ==
    LET res == linkCertificateErr(caller, tokenId, certificateId) IN
    /\ last' = Outcome("linkCertificate", res)
    /\ batches' =
           IF res = "ok"
           THEN [batches EXCEPT ![tokenId].linkedCertificateIds = Append(@, certificateId)]
           ELSE batches
    /\ UNCHANGED <<now, registryVars, certVars, batchNextTokenId, batchOwners, pendingVerification,
                   authorizedProducers, authorizedVerifiers,
                   batchVerified>>

\* getBatch is a view: it reverts for a token that was not minted and
\* otherwise returns the stored record.
getBatchErr(tokenId) ==
    IF ~_exists(tokenId) THEN "Batch does not exist"
    ELSE "ok"

getBatch(tokenId) == batches[tokenId]

\* The two loops of getPendingBatches, which both start at i = 1 and stop
\* before _nextTokenId: the ids collected, in increasing order.
RECURSIVE pendingBatchesFrom(_)
pendingBatchesFrom(i) ==
    IF ~(i < batchNextTokenId) THEN <<>>
    ELSE (IF pendingVerification[i] THEN <<i>> ELSE <<>>) \o pendingBatchesFrom(i + 1)

getPendingBatchesErr(caller) ==
    IF caller \notin authorizedVerifiers THEN "Not authorized as verifier"
    ELSE "ok"

getPendingBatches == pendingBatchesFrom(1)

\* ERC721.transferFrom, inherited by BatchNFT: the token's owner hands the
\* token over; the Batch record is not touched.
transferFromErr(caller, from, to, tokenId) ==
    IF to = ZeroAddress THEN "ERC721InvalidReceiver"
    ELSE IF batchOwners[tokenId] = ZeroAddress THEN "ERC721NonexistentToken"
    ELSE IF caller # batchOwners[tokenId] THEN "ERC721InsufficientApproval"
    ELSE IF from # batchOwners[tokenId] THEN "ERC721IncorrectOwner"
    ELSE "ok"

transferFrom(caller, from, to, tokenId) ==
    LET res == transferFromErr(caller, from, to, tokenId) IN
    /\ last' = Outcome("transferFrom", res)
    /\ batchOwners' = IF res = "ok" THEN [batchOwners EXCEPT ![tokenId] = to]
                      ELSE batchOwners
    /\ UNCHANGED <<now, registryVars, certVars, batchNextTokenId, batches, pendingVerification,
                   authorizedProducers, authorizedVerifiers,
                   batchVerified>>

\* ---------------------------------------------------------------- Registry
\* Registry and SimpleRegistry keep their own role maps and forward to the
\* contracts they deployed.  certificateContract and batchContract are
\* assigned together and are one variable; setContractAddresses is left out.
\* The registry's own owner is its deployer.
deployContractsErr(caller) ==
    IF caller # Deployer THEN "OwnableUnauthorizedAccount"
    ELSE IF certificateContract # ZeroAddress THEN "Contracts already deployed"
    ELSE "ok"

\* new CertificateNFT() and new BatchNFT(...) run the two constructors with
\* the registry as msg.sender.
deployContracts(caller) ==
    LET res == deployContractsErr(caller) IN
    /\ last' = Outcome("deployContracts", res)
    /\ IF res = "ok"
       THEN /\ certificateContract' = DeployedAddress
            /\ certNextTokenId' = 0
            /\ certificates' = [c \in CertIds |-> EmptyCertificate]
            /\ certOwners' = [c \in CertIds |-> ZeroAddress]
            /\ authorizedCertifiers' = {RegistryAddress}
            /\ batchNextTokenId' = 0
            /\ batches' = [b \in BatchIds |-> EmptyBatch]
            /\ batchOwners' = [b \in BatchIds |-> ZeroAddress]
            /\ pendingVerification' = [b \in BatchIds |-> FALSE]
            /\ authorizedProducers' = {RegistryAddress}
            /\ authorizedVerifiers' = {RegistryAddress}
            /\ batchVerified' = [b \in BatchIds |-> 0]
       ELSE UNCHANGED <<certificateContract, certVars, batchVars>>
    /\ UNCHANGED <<now, certifiers, producers, verifiers>>

registerCertifierErr(caller, certifier) ==
    IF caller # Deployer THEN "OwnableUnauthorizedAccount"
    ELSE IF certifier = ZeroAddress THEN "Invalid certifier address"
    ELSE IF certifier \in certifiers THEN "Already registered as certifier"
    ELSE IF certificateContract # ZeroAddress THEN authorizeCertifierErr(RegistryAddress, certifier)
    ELSE "ok"

registerCertifier(caller, certifier) ==
    LET res == registerCertifierErr(caller, certifier) IN
    /\ last' = Outcome("registerCertifier", res)
    /\ certifiers' = IF res = "ok" THEN certifiers \cup {certifier} ELSE certifiers
    /\ authorizedCertifiers' =
           IF res = "ok" /\ certificateContract # ZeroAddress
           THEN authorizedCertifiers \cup {certifier}
           ELSE authorizedCertifiers
    /\ UNCHANGED <<now, certificateContract, producers, verifiers, certNextTokenId,
                   certificates, certOwners, batchVars>>

removeCertifierErr(caller, certifier) ==
    IF caller # Deployer THEN "OwnableUnauthorizedAccount"
    ELSE IF certifier \notin certifiers THEN "Not registered as certifier"
    ELSE IF certificateContract # ZeroAddress THEN revokeCertifierErr(RegistryAddress, certifier)
    ELSE "ok"

removeCertifier(caller, certifier) ==
    LET res == removeCertifierErr(caller, certifier) IN
    /\ last' = Outcome("removeCertifier", res)
    /\ certifiers' = IF res = "ok" THEN certifiers \ {certifier} ELSE certifiers
    /\ authorizedCertifiers' =
           IF res = "ok" /\ certificateContract # ZeroAddress
           THEN authorizedCertifiers \ {certifier}
           ELSE authorizedCertifiers
    /\ UNCHANGED <<now, certificateContract, producers, verifiers, certNextTokenId,
                   certificates, certOwners, batchVars>>

registerProducerErr(caller, producer) ==
    IF caller # Deployer THEN "OwnableUnauthorizedAccount"
    ELSE IF producer = ZeroAddress THEN "Invalid producer address"
    ELSE IF producer \in producers THEN "Already registered as producer"
    ELSE IF certificateContract # ZeroAddress THEN authorizeProducerErr(RegistryAddress, producer)
    ELSE "ok"

registerProducer(caller, producer) ==
    LET res == registerProducerErr(caller, producer) IN
    /\ last' = Outcome("registerProducer", res)
    /\ producers' = IF res = "ok" THEN producers \cup {producer} ELSE producers
    /\ authorizedProducers' =
           IF res = "ok" /\ certificateContract # ZeroAddress
           THEN authorizedProducers \cup {producer}
           ELSE authorizedProducers
    /\ UNCHANGED <<now, certificateContract, certifiers, verifiers, certVars,
                   batchNextTokenId, batches, batchOwners, pendingVerification,
                   authorizedVerifiers, batchVerified>>

removeProducerErr(caller, producer) ==
    IF caller # Deployer THEN "OwnableUnauthorizedAccount"
    ELSE IF producer \notin producers THEN "Not registered as producer"
    ELSE IF certificateContract # ZeroAddress THEN revokeProducerErr(RegistryAddress, producer)
    ELSE "ok"

removeProducer(caller, producer) ==
    LET res == removeProducerErr(caller, producer) IN
    /\ last' = Outcome("removeProducer", res)
    /\ producers' = IF res = "ok" THEN producers \ {producer} ELSE producers
    /\ authorizedProducers' =
           IF res = "ok" /\ certificateContract # ZeroAddress
           THEN authorizedProducers \ {producer}
           ELSE authorizedProducers
    /\ UNCHANGED <<now, certificateContract, certifiers, verifiers, certVars,
                   batchNextTokenId, batches, batchOwners, pendingVerification,
                   authorizedVerifiers, batchVerified>>

registerVerifierErr(caller, verifier) ==
    IF caller # Deployer THEN "OwnableUnauthorizedAccount"
    ELSE IF verifier = ZeroAddress THEN "Invalid verifier address"
    ELSE IF verifier \in verifiers THEN "Already registered as verifier"
    ELSE IF certificateContract # ZeroAddress THEN authorizeVerifierErr(RegistryAddress, verifier)
    ELSE "ok"

registerVerifier(caller, verifier) ==
    LET res == registerVerifierErr(caller, verifier) IN
    /\ last' = Outcome("registerVerifier", res)
    /\ verifiers' = IF res = "ok" THEN verifiers \cup {verifier} ELSE verifiers
    /\ authorizedVerifiers' =
           IF res = "ok" /\ certificateContract # ZeroAddress
           THEN authorizedVerifiers \cup {verifier}
           ELSE authorizedVerifiers
    /\ UNCHANGED <<now, certificateContract, certifiers, producers, certVars,
                   batchNextTokenId, batches, batchOwners, pendingVerification,
                   authorizedProducers, batchVerified>>

removeVerifierErr(caller, verifier) ==
    IF caller # Deployer THEN "OwnableUnauthorizedAccount"
    ELSE IF verifier \notin verifiers THEN "Not registered as verifier"
    ELSE IF certificateContract # ZeroAddress THEN revokeVerifierErr(RegistryAddress, verifier)
    ELSE "ok"

removeVerifier(caller, verifier) ==
    LET res == removeVerifierErr(caller, verifier) IN
    /\ last' = Outcome("removeVerifier", res)
    /\ verifiers' = IF res = "ok" THEN verifiers \ {verifier} ELSE verifiers
    /\ authorizedVerifiers' =
           IF res = "ok" /\ certificateContract # ZeroAddress
           THEN authorizedVerifiers \ {verifier}
           ELSE authorizedVerifiers
    /\ UNCHANGED <<now, certificateContract, certifiers, producers, certVars,
                   batchNextTokenId, batches, batchOwners, pendingVerification,
                   authorizedProducers, batchVerified>>

\* SimpleRegistry: registration without requires of its own, removal without
\* a call to the deployed contract.
SimpleRegistry_registerCertifierErr(caller, certifier) ==
    IF caller # Deployer THEN "OwnableUnauthorizedAccount"
    ELSE IF certificateContract # ZeroAddress THEN authorizeCertifierErr(RegistryAddress, certifier)
    ELSE "ok"

SimpleRegistry_registerCertifier(caller, certifier) ==
    LET res == SimpleRegistry_registerCertifierErr(caller, certifier) IN
    /\ last' = Outcome("registerCertifier", res)
    /\ certifiers' = IF res = "ok" THEN certifiers \cup {certifier} ELSE certifiers
    /\ authorizedCertifiers' =
           IF res = "ok" /\ certificateContract # ZeroAddress
           THEN authorizedCertifiers \cup {certifier}
           ELSE authorizedCertifiers
    /\ UNCHANGED <<now, certificateContract, producers, verifiers, certNextTokenId,
                   certificates, certOwners, batchVars>>

SimpleRegistry_removeCertifierErr(caller, certifier) ==
    IF caller # Deployer THEN "OwnableUnauthorizedAccount"
    ELSE "ok"

SimpleRegistry_removeCertifier(caller, certifier) ==
    LET res == SimpleRegistry_removeCertifierErr(caller, certifier) IN
    /\ last' = Outcome("removeCertifier", res)
    /\ certifiers' = IF res = "ok" THEN certifiers \ {certifier} ELSE certifiers
    /\ UNCHANGED <<now, certificateContract, producers, verifiers, certVars, batchVars>>

SimpleRegistry_registerProducerErr(caller, producer) ==
    IF caller # Deployer THEN "OwnableUnauthorizedAccount"
    ELSE IF certificateContract # ZeroAddress THEN authorizeProducerErr(RegistryAddress, producer)
    ELSE "ok"

SimpleRegistry_registerProducer(caller, producer) ==
    LET res == SimpleRegistry_registerProducerErr(caller, producer) IN
    /\ last' = Outcome("registerProducer", res)
    /\ producers' = IF res = "ok" THEN producers \cup {producer} ELSE producers
    /\ authorizedProducers' =
           IF res = "ok" /\ certificateContract # ZeroAddress
           THEN authorizedProducers \cup {producer}
           ELSE authorizedProducers
    /\ UNCHANGED <<now, certificateContract, certifiers, verifiers, certVars,
                   batchNextTokenId, batches, batchOwners, pendingVerification,
                   authorizedVerifiers, batchVerified>>

SimpleRegistry_removeProducerErr(caller, producer) ==
    IF caller # Deployer THEN "OwnableUnauthorizedAccount"
    ELSE "ok"

SimpleRegistry_removeProducer(caller, producer) ==
    LET res == SimpleRegistry_removeProducerErr(caller, producer) IN
    /\ last' = Outcome("removeProducer", res)
    /\ producers' = IF res = "ok" THEN producers \ {producer} ELSE producers
    /\ UNCHANGED <<now, certificateContract, certifiers, verifiers, certVars,
                   batchVars>>

SimpleRegistry_registerVerifierErr(caller, verifier) ==
    IF caller # Deployer THEN "OwnableUnauthorizedAccount"
    ELSE IF certificateContract # ZeroAddress THEN authorizeVerifierErr(RegistryAddress, verifier)
    ELSE "ok"

SimpleRegistry_registerVerifier(caller, verifier) ==
    LET res == SimpleRegistry_registerVerifierErr(caller, verifier) IN
    /\ last' = Outcome("registerVerifier", res)
    /\ verifiers' = IF res = "ok" THEN verifiers \cup {verifier} ELSE verifiers
    /\ authorizedVerifiers' =
           IF res = "ok" /\ certificateContract # ZeroAddress
           THEN authorizedVerifiers \cup {verifier}
           ELSE authorizedVerifiers
    /\ UNCHANGED <<now, certificateContract, certifiers, producers, certVars,
                   batchNextTokenId, batches, batchOwners, pendingVerification,
                   authorizedProducers, batchVerified>>

SimpleRegistry_removeVerifierErr(caller, verifier) ==
    IF caller # Deployer THEN "OwnableUnauthorizedAccount"
    ELSE "ok"

SimpleRegistry_removeVerifier(caller, verifier) ==
    LET res == SimpleRegistry_removeVerifierErr(caller, verifier) IN
    /\ last' = Outcome("removeVerifier", res)
    /\ verifiers' = IF res = "ok" THEN verifiers \ {verifier} ELSE verifiers
    /\ UNCHANGED <<now, certificateContract, certifiers, producers, certVars,
                   batchVars>>

isCertifier(certifier) == certifier \in certifiers
isProducer(producer) == producer \in producers
isVerifier(verifier) == verifier \in verifiers

isAuthorizedCertifier(certifier) == certifier \in authorizedCertifiers
isAuthorizedProducer(producer) == producer \in authorizedProducers
isAuthorizedVerifier(verifier) == verifier \in authorizedVerifiers

\* The events a successful call emits, the ERC721 Transfer of _mint and
\* _transfer included; a reverted call emits none.  The reason string of
\* BatchCancelled is left out.
createBatchEvents(caller, batchId) ==
    {<<"BatchCreated", batchNextTokenId, batchId, caller>>}

verifyBatchEvents(caller, tokenId) ==
    {<<"Transfer", ZeroAddress, batches[tokenId].creator, tokenId>>,
     <<"BatchVerified", tokenId, caller>>}

transferBatchEvents(caller, tokenId, to) ==
    {<<"Transfer", caller, to, tokenId>>, <<"BatchTransferred", tokenId, caller, to>>}

markAsInTransitEvents(caller, tokenId) == {}

cancelBatchEvents(caller, tokenId) == {<<"BatchCancelled", tokenId>>}

linkCertificateEvents(caller, tokenId, certificateId) ==
    {<<"CertificateLinked", tokenId, certificateId>>}

transferFromEvents(caller, from, to, tokenId) == {<<"Transfer", from, to, tokenId>>}

BatchRoleNext ==
    \/ \E caller \in RoleCallers, p \in RoleTargets : authorizeProducer(caller, p)
    \/ \E caller \in RoleCallers, p \in RoleTargets : revokeProducer(caller, p)
    \/ \E caller \in RoleCallers, v \in RoleTargets : authorizeVerifier(caller, v)
    \/ \E caller \in RoleCallers, v \in RoleTargets : revokeVerifier(caller, v)

BatchLifeNext ==
    \/ \E caller \in Principals, a \in CreateArgs : createBatch(caller, a[1], a[2], a[3])
    \/ \E caller \in Principals, tokenId \in BatchIds : verifyBatch(caller, tokenId)
    \/ \E caller \in Principals, tokenId \in BatchIds, to \in Addresses :
           transferBatch(caller, tokenId, to)
    \/ \E caller \in Principals, tokenId \in BatchIds : markAsInTransit(caller, tokenId)
    \/ \E caller \in Principals, tokenId \in BatchIds : cancelBatch(caller, tokenId)
    \/ \E caller \in Principals, to \in Addresses, tokenId \in BatchIds :
           transferFrom(caller, caller, to, tokenId)

BatchLinkNext ==
    \E caller \in Principals, tokenId \in BatchIds, c \in CertIds :
        linkCertificate(caller, tokenId, c)

CertRoleNext ==
    \/ \E caller \in RoleCallers, certifier \in RoleTargets : authorizeCertifier(caller, certifier)
    \/ \E caller \in RoleCallers, certifier \in RoleTargets : revokeCertifier(caller, certifier)

CertLifeNext ==
    \/ \E caller \in Principals, a \in MintArgs : mintCertificate(caller, a[1], a[2], a[3])
    \/ \E caller \in Principals, tokenId \in CertIds : revokeCertificate(caller, tokenId)

\* Every operation of both contracts.
Next == Tick \/ CertRoleNext \/ CertLifeNext \/ BatchRoleNext \/ BatchLifeNext \/ BatchLinkNext
Spec == Init /\ [][Next]_vars

\* The certificate contract on its own.
NextCert == Tick \/ CertRoleNext \/ CertLifeNext
SpecCert == Init /\ [][NextCert]_vars

\* The batch life cycle: the operations that read or write a batch's status,
\* owner or pending flag, and the roles that gate them.
NextBatch == BatchRoleNext \/ BatchLifeNext
SpecBatch == Init /\ [][NextBatch]_vars

\* Certificates and the batches that link them.
NextLink ==
    \/ Tick
    \/ CertLifeNext
    \/ \E caller \in Principals, a \in CreateArgs : createBatch(caller, a[1], a[2], a[3])
    \/ \E caller \in Principals, tokenId \in BatchIds : verifyBatch(caller, tokenId)
    \/ BatchLinkNext
SpecLink == Init /\ [][NextLink]_vars

\* Batches outliving the validity of the certificates they link: time,
\* certificates, and a batch's creation, verification, hand-over and
\* cancellation.
NextStale ==
    \/ Tick
    \/ CertLifeNext
    \/ \E caller \in Principals, c \in CertIds : createBatch(caller, "X", 1, <<c>>)
    \/ \E caller \in Principals, tokenId \in BatchIds : verifyBatch(caller, tokenId)
    \/ \E caller \in Principals, tokenId \in BatchIds :
           transferBatch(caller, tokenId, "alice")
    \/ \E caller \in Principals, tokenId \in BatchIds : cancelBatch(caller, tokenId)
SpecStale == Init /\ [][NextStale]_vars

\* A batch record after its creation: certificates under every id, a batch
\* created with an empty list or one entry, and every function of BatchNFT
\* that acts on an existing batch or its token, at one fixed time.
NextFrame ==
    \/ \E caller \in Principals :
           mintCertificateUpTo(MaxCerts + 1, caller, "X", "alice", 1)
    \/ \E caller \in Principals, l \in {<<>>, <<0>>} : createBatch(caller, "X", 1, l)
    \/ \E caller \in Principals, tokenId \in BatchIds : verifyBatch(caller, tokenId)
    \/ BatchLinkNext
    \/ \E caller \in Principals, tokenId \in BatchIds :
           transferBatch(caller, tokenId, "alice")
    \/ \E caller \in Principals, tokenId \in BatchIds : markAsInTransit(caller, tokenId)
    \/ \E caller \in Principals, tokenId \in BatchIds : cancelBatch(caller, tokenId)
    \/ \E caller \in Principals, tokenId \in BatchIds :
           transferFrom(caller, caller, "bob", tokenId)
SpecFrame == Init /\ [][NextFrame]_vars

\* Histories of both contracts in which the block timestamp advances: the
\* first certificate, and a batch's creation, verification, linking, shipping,
\* hand-over and cancellation.
NextReplay ==
    \/ Tick
    \/ \E caller \in Principals : mintCertificate(caller, "X", "alice", 1)
    \/ \E caller \in Principals : revokeCertificate(caller, 0)
    \/ \E caller \in Principals : createBatch(caller, "X", 1, <<>>)
    \/ \E caller \in Principals, tokenId \in BatchIds : verifyBatch(caller, tokenId)
    \/ \E caller \in Principals, tokenId \in BatchIds : linkCertificate(caller, tokenId, 0)
    \/ \E caller \in Principals, tokenId \in BatchIds : markAsInTransit(caller, tokenId)
    \/ \E caller \in Principals, tokenId \in BatchIds :
           transferBatch(caller, tokenId, "alice")
    \/ \E caller \in Principals, tokenId \in BatchIds : cancelBatch(caller, tokenId)
SpecReplay == Init /\ [][NextReplay]_vars

\* A registry and the contracts it deploys.  The registry's constructor
\* gives its deployer the three roles; the two contracts do not exist yet.
InitRegistry ==
    /\ now = 1
    /\ certificateContract = ZeroAddress
    /\ certifiers = {Deployer}
    /\ producers = {Deployer}
    /\ verifiers = {Deployer}
    /\ certNextTokenId = 0
    /\ certificates = [c \in CertIds |-> EmptyCertificate]
    /\ certOwners = [c \in CertIds |-> ZeroAddress]
    /\ authorizedCertifiers = {}
    /\ batchNextTokenId = 0
    /\ batches = [b \in BatchIds |-> EmptyBatch]
    /\ batchOwners = [b \in BatchIds |-> ZeroAddress]
    /\ pendingVerification = [b \in BatchIds |-> FALSE]
    /\ authorizedProducers = {}
    /\ authorizedVerifiers = {}
    /\ batchVerified = [b \in BatchIds |-> 0]
    /\ last = "ok"

RegistryTargets == {ZeroAddress, Deployer, "alice"}

\* The role-gated functions of the two contracts; while the contracts do
\* not exist nobody is authorized and every call fails.
DeployedNext(callers) ==
    \/ \E caller \in callers : mintCertificate(caller, "X", "alice", 1)
    \/ \E caller \in callers : createBatch(caller, "X", 1, <<>>)
    \/ \E caller \in callers, tokenId \in BatchIds : verifyBatch(caller, tokenId)

NextRegistry ==
    \/ \E caller \in RoleCallers : deployContracts(caller)
    \/ \E caller \in RoleCallers, p \in RegistryTargets : registerCertifier(caller, p)
    \/ \E caller \in RoleCallers, p \in RegistryTargets : registerProducer(caller, p)
    \/ \E caller \in RoleCallers, p \in RegistryTargets : registerVerifier(caller, p)
    \/ \E caller \in RoleCallers, p \in RegistryTargets : removeCertifier(caller, p)
    \/ \E caller \in RoleCallers, p \in RegistryTargets : removeProducer(caller, p)
    \/ \E caller \in RoleCallers, p \in RegistryTargets : removeVerifier(caller, p)
    \/ DeployedNext(Principals)
SpecRegistry == InitRegistry /\ [][NextRegistry]_vars

NextSimpleRegistry ==
    \/ \E caller \in RoleCallers : deployContracts(caller)
    \/ \E caller \in RoleCallers, p \in RoleTargets :
           SimpleRegistry_registerCertifier(caller, p)
    \/ \E caller \in RoleCallers, p \in RoleTargets :
           SimpleRegistry_registerProducer(caller, p)
    \/ \E caller \in RoleCallers, p \in RoleTargets :
           SimpleRegistry_registerVerifier(caller, p)
    \/ \E caller \in RoleCallers, p \in RoleTargets :
           SimpleRegistry_removeCertifier(caller, p)
    \/ \E caller \in RoleCallers, p \in RoleTargets :
           SimpleRegistry_removeProducer(caller, p)
    \/ \E caller \in RoleCallers, p \in RoleTargets :
           SimpleRegistry_removeVerifier(caller, p)
    \/ DeployedNext({"alice"})
SpecSimpleRegistry == InitRegistry /\ [][NextSimpleRegistry]_vars

\* Role administration of both contracts, by every caller and for every
\* address, the deployer's own roles included.
NextRoles ==
    \/ \E caller \in Principals, p \in Addresses : authorizeCertifier(caller, p)
    \/ \E caller \in Principals, p \in Addresses : revokeCertifier(caller, p)
    \/ \E caller \in Principals, p \in Addresses : authorizeProducer(caller, p)
    \/ \E caller \in Principals, p \in Addresses : revokeProducer(caller, p)
    \/ \E caller \in Principals, p \in Addresses : authorizeVerifier(caller, p)
    \/ \E caller \in Principals, p \in Addresses : revokeVerifier(caller, p)
SpecRoles == Init /\ [][NextRoles]_vars

\* Identifier assignment: as many certificates and batches as the id
\* domains hold, with the operations that act on an issued id afterwards.
NextIds ==
    \/ \E caller \in Principals, a \in MintArgs :
           mintCertificateUpTo(MaxCerts + 1, caller, a[1], a[2], a[3])
    \/ \E caller \in Principals, tokenId \in CertIds : revokeCertificate(caller, tokenId)
    \/ \E caller \in Principals, quantity \in {0, 1} :
           createBatchUpTo(MaxBatches + 1, caller, "X", quantity, <<>>)
    \/ \E caller \in Principals, tokenId \in BatchIds : verifyBatch(caller, tokenId)
    \/ \E caller \in Principals, tokenId \in BatchIds :
           transferBatch(caller, tokenId, "alice")
    \/ \E caller \in Principals, tokenId \in BatchIds : cancelBatch(caller, tokenId)
SpecIds == Init /\ [][NextIds]_vars
\* ======================================================================
\* Properties
\* ======================================================================
Assigned(b) == b < batchNextTokenId
Issued(c) == c < certNextTokenId
Status(b) == batches[b].status
Linked(b) == batches[b].linkedCertificateIds

C1_StatusEdge(b) ==
    LET from == batches[b].status
        to == batches'[b].status
    IN
    \/ /\ from = "PendingVerification" /\ to = "Active"
       /\ \E caller \in Principals : verifyBatch(caller, b)
    \/ /\ from = "Active" /\ to = "InTransit"
       /\ \E caller \in Principals : markAsInTransit(caller, b)
    \/ /\ from \in {"Active", "InTransit"} /\ to = "Received"
       /\ \E caller \in Principals, rcpt \in Addresses : transferBatch(caller, b, rcpt)
    \/ /\ from \in {"PendingVerification", "Active", "InTransit", "Received"}
       /\ to = "Cancelled"
       /\ \E caller \in Principals : cancelBatch(caller, b)

\* C1: every change of a batch's status is an edge of the life cycle, made
\* by the operation that owns the edge: PendingVerification -> Active by
\* verifyBatch, Active -> InTransit by markAsInTransit, Active or InTransit
\* -> Received by transferBatch, any non-cancelled status -> Cancelled by
\* cancelBatch.
C1_StatusGraph ==
    [][\A b \in BatchIds : batches'[b].status # batches[b].status => C1_StatusEdge(b)]_vars

\* A batch that was verified and then handed to another account by
\* transferBatch.
C1_Witness ==
    \E b \in BatchIds :
        /\ Assigned(b) /\ Status(b) = "Received"
        /\ batches[b].currentOwner # batches[b].creator

\* C2: no batch's linkedCertificateIds holds an identifier twice.
C2_NoDuplicateLinks ==
    \A b \in BatchIds :
        \A i, j \in 1..Len(Linked(b)) : i # j => Linked(b)[i] # Linked(b)[j]

\* C3: a certificate's stored status changes only from Active to Revoked and
\* is never Active again once it has been Revoked.
C3_RevokedIsFinal ==
    [][\A c \in CertIds :
           /\ certificates[c].status = "Revoked" => certificates'[c].status = "Revoked"
           /\ certificates'[c].status # certificates[c].status =>
                  (certificates[c].status = "Active" /\ certificates'[c].status = "Revoked")
      ]_vars

\* C4: for every issued certificate, isValid is true exactly when the status
\* is Active and the current time is at most the expiry: true at
\* now = expiry, false from expiry + 1 on, false for a Revoked certificate.
C4_IsValidMeaning ==
    \A c \in CertIds : Issued(c) =>
        LET cert == certificates[c] IN
        /\ isValid(c) <=> (cert.status = "Active" /\ ~(now > cert.expiryTimestamp))
        /\ (cert.status = "Active" /\ now = cert.expiryTimestamp) => isValid(c)
        /\ now >= cert.expiryTimestamp + 1 => ~isValid(c)
        /\ cert.status = "Revoked" => ~isValid(c)

\* An unrevoked certificate on the last second of its validity.
C4_Witness ==
    \E c \in CertIds :
        /\ Issued(c) /\ certificates[c].status = "Active"
        /\ now = certificates[c].expiryTimestamp /\ isValid(c)

C5_NewLinksValid ==
    \A b \in BatchIds :
        \A i \in 1..Len(batches'[b].linkedCertificateIds) :
            (i > Len(Linked(b)) \/ Linked(b)[i] # batches'[b].linkedCertificateIds[i])
                => isValid(batches'[b].linkedCertificateIds[i])

\* C5: an id enters a batch's linkedCertificateIds only while isValid(id) is
\* true, and every linked id is the id of an issued certificate.
C5_LinkedAtValidity ==
    /\ [][C5_NewLinksValid]_vars
    /\ [](\A b \in BatchIds : \A i \in 1..Len(Linked(b)) : Issued(Linked(b)[i]))

\* A batch that still links a certificate which has meanwhile been revoked:
\* the check was made when the link was made.
C5_Witness ==
    \E b \in BatchIds :
        /\ Assigned(b) /\ Len(Linked(b)) >= 1
        /\ certificates[Linked(b)[1]].status = "Revoked"

HasInvalidEntry(l) == \E i \in 1..Len(l) : ~isValid(l[i])

C6_RejectedWritesNothing ==
    last' = "reverted" => UNCHANGED <<batchNextTokenId, batches, pendingVerification>>

C6_IdOnlyWithValidList ==
    batchNextTokenId' # batchNextTokenId =>
        /\ batchNextTokenId' = batchNextTokenId + 1
        /\ last' = "ok"
        /\ pendingVerification'[batchNextTokenId]
        /\ ~HasInvalidEntry(batches'[batchNextTokenId].linkedCertificateIds)

\* C6: createBatch with a certificate list of which any entry is unknown,
\* revoked or expired fails; a rejected call writes no batch record or
\* pending flag and consumes no identifier, so an identifier is consumed
\* only together with a record whose whole list was valid.
C6_CreateAtomic ==
    /\ [](\A caller \in Principals, a \in CreateArgs :
              HasInvalidEntry(a[3]) => createBatchErr(caller, a[1], a[2], a[3]) # "ok")
    /\ [][C6_RejectedWritesNothing /\ C6_IdOnlyWithValidList]_vars

\* A call was just rejected in a state in which a list with a valid first
\* and an invalid second entry is rejected for exactly that reason.
C6_Witness ==
    /\ last = "reverted"
    /\ \E l \in CertIdLists :
           /\ Len(l) = 2 /\ isValid(l[1]) /\ ~isValid(l[2])
           /\ createBatchErr(Deployer, "X", 1, l) = "Invalid or expired certificate"

\* C7: verifyBatch succeeds at most once per batch, only from
\* PendingVerification, and no call on a verified batch succeeds.
C7_VerifyOnce ==
    /\ [](\A b \in BatchIds :
              /\ batchVerified[b] <= 1
              /\ (batchVerified[b] >= 1 \/ (Assigned(b) /\ Status(b) # "PendingVerification"))
                     => \A caller \in Principals : verifyBatchErr(caller, b) # "ok")
    /\ [][\A b \in BatchIds :
              batchVerified'[b] # batchVerified[b] =>
                  (Assigned(b) /\ Status(b) = "PendingVerification")
         ]_vars

\* A verified batch that was cancelled afterwards.
C7_Witness ==
    \E b \in BatchIds : batchVerified[b] = 1 /\ Status(b) = "Cancelled"

\* C8: a rejected operation leaves the whole contract storage as it was.
C8_AllOrNothing ==
    [][last' = "reverted" => UNCHANGED ledger]_vars

\* A rejected call on a ledger that holds a certificate and a batch.
C8_Witness ==
    last = "reverted" /\ certNextTokenId > 0 /\ batchNextTokenId > 0

\* C9: the creator, the current owner and the admin can cancel a batch in
\* each of PendingVerification, Active, InTransit and Received.
C9_CancelFromAnyStatus ==
    \A b \in BatchIds :
        (Assigned(b) /\ Status(b) \in {"PendingVerification", "Active", "InTransit", "Received"})
            => \A caller \in {batches[b].creator, batches[b].currentOwner, owner} :
                   cancelBatchErr(caller, b) = "ok"

\* C10: Cancelled is terminal: no step changes a Cancelled status and a
\* Cancelled batch cannot be cancelled again.
C10_CancelledTerminal ==
    /\ [][\A b \in BatchIds : Status(b) = "Cancelled" => batches'[b].status = "Cancelled"]_vars
    /\ [](\A b \in BatchIds : Status(b) = "Cancelled" =>
              \A caller \in Principals : cancelBatchErr(caller, b) = "Batch already cancelled"
                                         \/ cancelBatchErr(caller, b) = "Not authorized to cancel")

\* A cancelled batch whose token has moved on to another holder.
C10_Witness ==
    \E b \in BatchIds : Status(b) = "Cancelled" /\ batchOwners[b] # batches[b].creator

C11_TransferStep(caller, b, to) ==
    IF ownerOf(b) = caller /\ Status(b) \in {"Active", "InTransit"} /\ to # ZeroAddress
    THEN /\ last' = "ok"
         /\ batches'[b].currentOwner = to
         /\ batches'[b].status = "Received"
         /\ batchOwners'[b] = to
    ELSE /\ last' = "reverted"
         /\ batches'[b] = batches[b]
         /\ batchOwners'[b] = batchOwners[b]

C12_ChainOfCustody ==
    \A b \in BatchIds :
        (/\ batchVerified[b] = 1 /\ Status(b) = "Received"
         /\ ownerOf(b) = batches[b].currentOwner
         /\ batches[b].currentOwner # batches[b].creator)
            => \A to \in Principals :
                   transferBatchErr(batches[b].currentOwner, b, to) = "ok"

\* C13: getBatch returns the record of every identifier that createBatch
\* has assigned, in every status, and fails exactly for the identifiers
\* never assigned.
C13_GetBatchKnown ==
    \A b \in BatchIds :
        /\ Assigned(b) <=> getBatchErr(b) = "ok"
        /\ Assigned(b) => getBatch(b) = batches[b]

\* C14: for an authorized verifier, getPendingBatches returns exactly the
\* identifiers of the batches whose status is PendingVerification, the
\* first batch created included.
C14_PendingListExact ==
    \A caller \in authorizedVerifiers :
        /\ getPendingBatchesErr(caller) = "ok"
        /\ {getPendingBatches[i] : i \in 1..Len(getPendingBatches)}
               = {b \in BatchIds : Assigned(b) /\ Status(b) = "PendingVerification"}

HasStaleLink(b) == \E i \in 1..Len(Linked(b)) : ~isValid(Linked(b)[i])

C15_BatchOutcomesKept ==
    \A caller \in Principals, b \in BatchIds :
        /\ verifyBatchErr(caller, b)' = verifyBatchErr(caller, b)
        /\ cancelBatchErr(caller, b)' = cancelBatchErr(caller, b)
        /\ \A to \in Addresses : transferBatchErr(caller, b, to)' = transferBatchErr(caller, b, to)

C15_StaleStep ==
    /\ (certificates' # certificates \/ now' # now) =>
           (UNCHANGED <<batches, batchOwners, pendingVerification>> /\ C15_BatchOutcomesKept)
    /\ \A caller \in Principals, c \in CertIds :
           (revokeCertificate(caller, c) /\ last' = "ok") => ~isValid(c)'
    /\ \A c \in CertIds : (Tick /\ now' > certificates[c].expiryTimestamp) => ~isValid(c)'

C15_StaleBatchUsable ==
    \A b \in BatchIds : (Assigned(b) /\ HasStaleLink(b)) =>
        /\ Status(b) = "PendingVerification" =>
               \A caller \in authorizedVerifiers : verifyBatchErr(caller, b) = "ok"
        /\ Status(b) = "Active" =>
               /\ \A to \in Principals : transferBatchErr(ownerOf(b), b, to) = "ok"
               /\ cancelBatchErr(batches[b].creator, b) = "ok"

\* C15: stale links are tolerated: a revocation or the passing of time
\* changes no batch and no outcome of verifyBatch, transferBatch or
\* cancelBatch; afterwards isValid of the certificate is false, and a batch
\* linking it is verified, transferred and cancelled as any other.
C15_StaleLinksTolerated ==
    [][C15_StaleStep]_vars /\ []C15_StaleBatchUsable

\* A batch handed over to another account while the certificate it links
\* is revoked or expired.
C15_Witness ==
    \E b \in BatchIds :
        /\ Assigned(b) /\ HasStaleLink(b) /\ Status(b) = "Received"
        /\ batches[b].currentOwner # batches[b].creator

roles == <<authorizedCertifiers, authorizedProducers, authorizedVerifiers>>

C16_Rejections ==
    \A caller \in Principals, p \in Addresses :
        /\ caller # owner =>
               /\ authorizeCertifierErr(caller, p) # "ok" /\ revokeCertifierErr(caller, p) # "ok"
               /\ authorizeProducerErr(caller, p) # "ok" /\ revokeProducerErr(caller, p) # "ok"
               /\ authorizeVerifierErr(caller, p) # "ok" /\ revokeVerifierErr(caller, p) # "ok"
        /\ p \in authorizedCertifiers => authorizeCertifierErr(caller, p) # "ok"
        /\ p \in authorizedProducers => authorizeProducerErr(caller, p) # "ok"
        /\ p \in authorizedVerifiers => authorizeVerifierErr(caller, p) # "ok"
        /\ p \notin authorizedCertifiers => revokeCertifierErr(caller, p) # "ok"
        /\ p \notin authorizedProducers => revokeProducerErr(caller, p) # "ok"
        /\ p \notin authorizedVerifiers => revokeVerifierErr(caller, p) # "ok"

C16_ByAdminOnly ==
    roles' # roles =>
        /\ last' = "ok"
        /\ \E p \in Principals :
               \/ authorizeCertifier(owner, p) \/ revokeCertifier(owner, p)
               \/ authorizeProducer(owner, p) \/ revokeProducer(owner, p)
               \/ authorizeVerifier(owner, p) \/ revokeVerifier(owner, p)

C17_Rejections ==
    /\ \A caller \in Principals \ authorizedProducers : \A a \in CreateArgs :
           createBatchErr(caller, a[1], a[2], a[3]) = "Not authorized as producer"
    /\ \A caller \in Principals \ authorizedVerifiers : \A b \in BatchIds :
           verifyBatchErr(caller, b) = "Not authorized as verifier"

C17_GatedStep ==
    /\ last' = "reverted" =>
           UNCHANGED <<batchNextTokenId, batches, pendingVerification, batchOwners>>
    /\ batchNextTokenId' # batchNextTokenId =>
           batches'[batchNextTokenId].creator \in authorizedProducers
    /\ \A b \in BatchIds :
           (Status(b) = "PendingVerification" /\ batches'[b].status # "PendingVerification") =>
               \E caller \in authorizedVerifiers : verifyBatch(caller, b)

\* C17: createBatch by a caller that does not hold the Producer role at the
\* time of the call and verifyBatch by a caller that does not hold the
\* Verifier role at the time of the call fail with the authorization
\* error; the rejected call consumes no id and leaves a pending batch
\* pending.
C17_RoleGating ==
    []C17_Rejections /\ [][C17_GatedStep]_vars

\* A pending batch whose creator has lost the Producer role and is not a
\* verifier, right after a rejected call.
C17_Witness ==
    \E b \in BatchIds :
        /\ Assigned(b) /\ Status(b) = "PendingVerification" /\ last = "reverted"
        /\ batches[b].creator \notin authorizedProducers
        /\ batches[b].creator \notin authorizedVerifiers

C18_MintStep ==
    LET c == certNextTokenId IN
    /\ last' = "reverted" => UNCHANGED <<certNextTokenId, certificates, certOwners>>
    /\ certOwners' # certOwners => certNextTokenId' # certNextTokenId
    /\ certNextTokenId' # certNextTokenId =>
           /\ certNextTokenId' = c + 1 /\ last' = "ok"
           /\ \E caller \in authorizedCertifiers, a \in MintArgs :
                  /\ mintCertificate(caller, a[1], a[2], a[3])
                  /\ a[1] # "" /\ a[2] # ZeroAddress /\ a[3] > 0
                  /\ certificates'[c].status = "Active"
                  /\ certificates'[c].issuer = caller
                  /\ certificates'[c].issueTimestamp = now
                  /\ certificates'[c].expiryTimestamp = now + a[3]
                  /\ certOwners'[c] = a[2]

\* C18: mintCertificate succeeds only for a caller holding the Certifier
\* role, a non-empty certificate id, a non-zero certified entity and a
\* validity period above 0; the new certificate is Active, issued by the
\* caller at the current time, expiring at that time plus the period, and
\* its token belongs to the certified entity; a rejected call creates no
\* certificate and consumes no id.
C18_MintCertificate ==
    /\ [](\A caller \in Principals, a \in MintArgs :
              mintCertificateErr(caller, a[1], a[2], a[3]) = "ok" =>
                  (/\ caller \in authorizedCertifiers
                   /\ a[1] # "" /\ a[2] # ZeroAddress /\ a[3] > 0))
    /\ [][C18_MintStep]_vars

\* A certificate just issued by a certifier other than the admin.
C18_Witness ==
    \E c \in CertIds :
        /\ Issued(c) /\ last = "ok"
        /\ certificates[c].issuer # owner /\ certificates[c].issuer \in authorizedCertifiers
        /\ certificates[c].issueTimestamp = now /\ certificates[c].status = "Active"
        /\ certOwners[c] = certificates[c].certifiedEntityAddress

C19_Outcomes ==
    \A caller \in Principals, c \in CertIds :
        LET cert == certificates[c]
            entitled == caller = cert.issuer \/ caller = owner
        IN
        /\ revokeCertificateErr(caller, c) = "ok" => (entitled /\ cert.status = "Active")
        /\ (Issued(c) /\ entitled /\ cert.status = "Active") =>
               revokeCertificateErr(caller, c) = "ok"
        /\ ~entitled => revokeCertificateErr(caller, c) = "Only issuer or owner can revoke"
        /\ (entitled /\ cert.status = "Revoked") =>
               revokeCertificateErr(caller, c) = "Certificate not active"

C19_RevokeStep ==
    /\ last' = "reverted" => UNCHANGED certificates
    /\ \A c \in CertIds :
           (certificates[c].status # "Revoked" /\ certificates'[c].status = "Revoked") =>
               \E caller \in {certificates[c].issuer, owner} \cap Principals :
                   revokeCertificate(caller, c) /\ certificates[c].status = "Active"

\* C19: revokeCertificate succeeds only for the certificate's issuer or the
\* admin and only on an Active certificate; any other caller gets the
\* authorization error, a call on a Revoked certificate the not-active
\* error, and a rejected call leaves the status as it was.
C19_RevokeCertificate ==
    []C19_Outcomes /\ [][C19_RevokeStep]_vars

\* A certificate issued by a certifier other than the admin and since
\* revoked, right after a rejected call.
C19_Witness ==
    \E c \in CertIds :
        /\ Issued(c) /\ certificates[c].status = "Revoked" /\ last = "reverted"
        /\ certificates[c].issuer # owner

\* C20: linking a certificate twice: for the creator or current owner of a
\* batch and a valid certificate, linkCertificate goes through while the
\* certificate is not yet linked to the batch, and from then on fails with
\* the already-linked error.
C20_LinkTwice ==
    \A b \in BatchIds : Assigned(b) =>
        \A caller \in {batches[b].creator, batches[b].currentOwner}, c \in CertIds :
            (Issued(c) /\ isValid(c)) =>
                linkCertificateErr(caller, b, c) =
                    IF alreadyLinked(Linked(b), c) THEN "Certificate already linked" ELSE "ok"

\* C21: on a batch that is still PendingVerification, linkCertificate by
\* the creator appends a valid, not yet linked certificate and rejects an
\* already linked one with the already-linked error, never with the
\* not-found error.
C21_LinkWhilePending ==
    \A b \in BatchIds : (Assigned(b) /\ Status(b) = "PendingVerification") =>
        \A c \in CertIds : (Issued(c) /\ isValid(c)) =>
            /\ linkCertificateErr(batches[b].creator, b, c) # "Batch does not exist"
            /\ alreadyLinked(Linked(b), c) =>
                   linkCertificateErr(batches[b].creator, b, c) = "Certificate already linked"
            /\ ~alreadyLinked(Linked(b), c) =>
                   linkCertificateErr(batches[b].creator, b, c) = "ok"

\* C22: once a batch is Cancelled, no linkCertificate call goes through, so
\* its linkedCertificateIds never changes again.
C22_NoLinkOnceCancelled ==
    \A b \in BatchIds : Status(b) = "Cancelled" =>
        \A caller \in Principals, c \in CertIds : linkCertificateErr(caller, b, c) # "ok"

\* C23: on every batch, linkCertificate by a caller that is neither the
\* batch's creator nor its current owner, the admin included, fails with
\* the authorization error.
C23_LinkByOthersUnauthorized ==
    \A b \in BatchIds : Assigned(b) =>
        \A caller \in Principals \ {batches[b].creator, batches[b].currentOwner} :
            \A c \in CertIds :
                linkCertificateErr(caller, b, c) = "Not authorized to link certificate"

C24_Entitled(b) == {batches[b].creator, batches[b].currentOwner, owner} \cap Principals

C24_Outcomes ==
    \A b \in BatchIds :
        /\ \A caller \in Principals \ C24_Entitled(b) : cancelBatchErr(caller, b) # "ok"
        /\ (/\ Assigned(b) /\ Status(b) = "Received"
            /\ batches[b].currentOwner # batches[b].creator)
               => cancelBatchErr(batches[b].creator, b) = "ok"

C24_CancelStep ==
    /\ last' = "reverted" => UNCHANGED batches
    /\ \A b \in BatchIds :
           (Status(b) # "Cancelled" /\ batches'[b].status = "Cancelled") =>
               \E caller \in C24_Entitled(b) : cancelBatch(caller, b)

\* C24: cancelBatch changes a batch only for its creator, its current
\* owner or the admin; the creator can still cancel a batch that was
\* transferred to another owner and is Received; a call by anyone else
\* fails and leaves the status as it was.
C24_CancelRights ==
    []C24_Outcomes /\ [][C24_CancelStep]_vars

\* A batch created by a producer other than the admin, transferred to
\* another account and then cancelled.
C24_Witness ==
    \E b \in BatchIds :
        /\ Status(b) = "Cancelled" /\ batches[b].creator # owner
        /\ batches[b].currentOwner # batches[b].creator

C25_MarkStep(caller, b) ==
    IF ownerOf(b) = caller /\ Status(b) = "Active"
    THEN /\ last' = "ok"
         /\ batches' = [batches EXCEPT ![b].status = "InTransit"]
         /\ batchOwners' = batchOwners
    ELSE /\ last' = "reverted"
         /\ UNCHANGED <<batches, batchOwners>>

\* C25: markAsInTransit succeeds exactly when the caller owns the batch and
\* the status is Active; it then sets the status to InTransit and changes
\* nothing else, the owner included; otherwise it fails and the batch is
\* unchanged.
C25_MarkAsInTransit ==
    /\ [](\A caller \in Principals, b \in BatchIds :
              markAsInTransitErr(caller, b) = "ok" <=>
                  (ownerOf(b) = caller /\ Status(b) = "Active"))
    /\ [][/\ last' = "reverted" => UNCHANGED <<batches, batchOwners>>
          /\ batches' # batches =>
                 \A caller \in Principals, b \in BatchIds :
                     markAsInTransit(caller, b) => C25_MarkStep(caller, b)
         ]_vars

\* A batch in transit in the hands of its creator, right after a rejected
\* call.
C25_Witness ==
    \E b \in BatchIds :
        /\ Status(b) = "InTransit" /\ last = "reverted"
        /\ ownerOf(b) = batches[b].creator /\ batches[b].currentOwner = batches[b].creator

\* C26 as claimed: isValid fails for an identifier that was never issued.
C26_IsValidUnknownFails ==
    \A c \in CertIds : ~Issued(c) => isValidErr(c) # "ok"

\* C26, amended: isValid does not fail for an identifier that was never
\* issued; it returns false.
C26_IsValidUnknownFalse ==
    \A c \in CertIds : ~Issued(c) => (isValidErr(c) = "ok" /\ isValid(c) = FALSE)

\* A valid certificate next to an identifier not yet issued.
C26_Witness ==
    \E c, d \in CertIds :
        /\ Issued(c) /\ isValid(c)
        /\ ~Issued(d) /\ isValidErr(d) = "ok" /\ ~isValid(d)

HasDuplicate(l) == \E i, j \in 1..Len(l) : i # j /\ l[i] = l[j]

\* C27: createBatch rejects every linkedCertificateIds list in which a
\* certificate id occurs more than once, also when the certificate is
\* valid.
C27_CreateRejectsDuplicates ==
    \A caller \in Principals, a \in CreateArgs :
        HasDuplicate(a[3]) => createBatchErr(caller, a[1], a[2], a[3]) # "ok"

C28_IdsInUse ==
    /\ \A c \in CertIds : certOwners[c] # ZeroAddress <=> c < certNextTokenId
    /\ \A b \in BatchIds : batches[b].creator # ZeroAddress <=> b < batchNextTokenId

C28_IdStep ==
    /\ certNextTokenId' \in {certNextTokenId, certNextTokenId + 1}
    /\ batchNextTokenId' \in {batchNextTokenId, batchNextTokenId + 1}
    /\ last' = "reverted" => UNCHANGED <<certNextTokenId, batchNextTokenId>>
    /\ \A c \in CertIds :
           /\ certOwners[c] # ZeroAddress => certOwners'[c] # ZeroAddress
           /\ (certOwners[c] = ZeroAddress /\ certOwners'[c] # ZeroAddress) =>
                  (c = certNextTokenId /\ certNextTokenId' = c + 1 /\ last' = "ok")
    /\ \A b \in BatchIds :
           /\ batches[b].creator # ZeroAddress => batches'[b].creator = batches[b].creator
           /\ (batches[b].creator = ZeroAddress /\ batches'[b].creator # ZeroAddress) =>
                  (b = batchNextTokenId /\ batchNextTokenId' = b + 1 /\ last' = "ok")
    /\ certNextTokenId' # certNextTokenId => certOwners'[certNextTokenId] # ZeroAddress
    /\ batchNextTokenId' # batchNextTokenId => batches'[batchNextTokenId].creator # ZeroAddress

C29_Fixed(b) ==
    <<batches[b].batchId, batches[b].creator, batches[b].productType,
      batches[b].quantity, batches[b].unit, batches[b].harvestTimestamp,
      batches[b].originInfo, batches[b].metadataURI>>

C29_IsPrefix(s, t) == Len(s) <= Len(t) /\ SubSeq(t, 1, Len(s)) = s

C29_Step ==
    \A b \in BatchIds :
        Assigned(b) /\ batches'[b] # batches[b] =>
            /\ C29_Fixed(b)' = C29_Fixed(b)
            /\ C29_IsPrefix(Linked(b), Linked(b)')
            /\ batches'[b].currentOwner # batches[b].currentOwner =>
                   \E caller \in Principals, to \in Addresses :
                       transferBatch(caller, b, to) /\ last' = "ok"

C30_Det(A) ==
    \/ ENABLED (A /\ \E t \in {<<ledger, last>>'} : ~ENABLED (A /\ <<ledger, last>>' # t))
    \/ ~ENABLED A

C31_Pending(b) == Assigned(b) /\ Status(b) = "PendingVerification"

C31_LeaveStep ==
    \A b \in BatchIds :
        C31_Pending(b) /\ batches'[b].status # "PendingVerification" =>
            /\ last' = "ok"
            /\ \E caller \in Principals : verifyBatch(caller, b)

C32_Names(events, b) ==
    \E e \in events : (IF e[1] = "Transfer" THEN e[4] ELSE e[2]) = b

C32_Emitted(b) ==
    \/ \E caller \in Principals, a \in CreateArgs :
           /\ createBatch(caller, a[1], a[2], a[3])
           /\ C32_Names(createBatchEvents(caller, a[1]), b)
    \/ \E caller \in Principals :
           \/ verifyBatch(caller, b) /\ C32_Names(verifyBatchEvents(caller, b), b)
           \/ markAsInTransit(caller, b) /\ C32_Names(markAsInTransitEvents(caller, b), b)
           \/ cancelBatch(caller, b) /\ C32_Names(cancelBatchEvents(caller, b), b)
           \/ \E to \in Addresses :
                  \/ transferBatch(caller, b, to)
                         /\ C32_Names(transferBatchEvents(caller, b, to), b)
                  \/ transferFrom(caller, caller, to, b)
                         /\ C32_Names(transferFromEvents(caller, caller, to, b), b)
           \/ \E c \in CertIds :
                  linkCertificate(caller, b, c) /\ C32_Names(linkCertificateEvents(caller, b, c), b)

C32_Step ==
    \A b \in BatchIds :
        (batches'[b] # batches[b] \/ batchOwners'[b] # batchOwners[b]) =>
            last' = "ok" /\ C32_Emitted(b)

C32_EveryChangeNotified == [][C32_Step]_vars

\* C33: with contracts deployed, once a principal has been removed from a
\* role in the registry and until it is registered again, the registry does
\* not list it and its mintCertificate (createBatch, verifyBatch) fails.
C33_CanMint(p) == mintCertificateErr(p, "X", "alice", 1) = "ok"
C33_CanCreate(p) == createBatchErr(p, "X", 1, <<>>) = "ok"
C33_CanVerify(p) == \E b \in BatchIds : verifyBatchErr(p, b) = "ok"

C33_Step ==
    \A p \in Principals :
        certificateContract' # ZeroAddress =>
            /\ (p \notin certifiers' /\ (p \in certifiers \/ ~C33_CanMint(p)))
                   => ~C33_CanMint(p)'
            /\ (p \notin producers' /\ (p \in producers \/ ~C33_CanCreate(p)))
                   => ~C33_CanCreate(p)'
            /\ (p \notin verifiers' /\ (p \in verifiers \/ ~C33_CanVerify(p)))
                   => ~C33_CanVerify(p)'

C33_RemovalTakesCapability == [][C33_Step]_vars

\* C34: once Registry.deployContracts has run, the registry and the two
\* contracts answer the same for every principal and each role.
C34_RolesAgree ==
    certificateContract # ZeroAddress =>
        \A p \in Principals :
            /\ isCertifier(p) = isAuthorizedCertifier(p)
            /\ isProducer(p) = isAuthorizedProducer(p)
            /\ isVerifier(p) = isAuthorizedVerifier(p)

\* C35: in Registry, the owner's removal of a principal from a role does not
\* fail while the registry lists the principal in that role.
C35_RemovalSucceeds ==
    \A p \in Principals :
        /\ isCertifier(p) => removeCertifierErr(Deployer, p) = "ok"
        /\ isProducer(p) => removeProducerErr(Deployer, p) = "ok"
        /\ isVerifier(p) => removeVerifierErr(Deployer, p) = "ok"

\* C36: for every batch whose token is minted, the record's currentOwner is
\* the token owner that ownerOf returns.
C36_OwnerInSync ==
    \A b \in BatchIds : _exists(b) => batches[b].currentOwner = ownerOf(b)

\* C37: for every created batch the pending flag, the status
\* PendingVerification and the absence of a token coincide; a successful
\* verifyBatch ends all three at once and leaves the token with the creator,
\* who is also the recorded owner.
C37_VerifyStep ==
    \A b \in BatchIds :
        (Assigned(b) /\ batchOwners[b] = ZeroAddress /\ batchOwners'[b] # ZeroAddress) =>
            /\ \E caller \in Principals : verifyBatch(caller, b)
            /\ last' = "ok"
            /\ ~pendingVerification'[b]
            /\ batches'[b].status = "Active"
            /\ batchOwners'[b] = batches'[b].creator
            /\ batchOwners'[b] = batches'[b].currentOwner

C37_PendingCoincide ==
    /\ [](\A b \in BatchIds : Assigned(b) =>
              /\ pendingVerification[b] <=> Status(b) = "PendingVerification"
              /\ pendingVerification[b] <=> ~_exists(b))
    /\ [][C37_VerifyStep]_vars

\* A batch created by a producer other than its verifier, verified and not
\* touched since.
C37_Witness ==
    \E b \in BatchIds :
        /\ batchVerified[b] = 1 /\ Status(b) = "Active"
        /\ batches[b].creator = "alice" /\ ownerOf(b) = "alice"

\* C38: revokeCertificate on an id that was never issued is rejected for
\* every caller, so no record is Revoked before it has been issued.
C38_RevokeUnknownRejected ==
    \A c \in CertIds : ~Issued(c) =>
        /\ \A caller \in Principals : revokeCertificateErr(caller, c) # "ok"
        /\ certificates[c].status # "Revoked"

\* C39: an issued certificate that is not valid is not valid after any step
\* (time only advances), and no linkCertificate of it succeeds from then on.
C39_Step ==
    \A c \in CertIds : (Issued(c) /\ ~isValid(c)) => ~isValid(c)'

C39_ValidityMonotone ==
    /\ [](\A c \in CertIds : ~isValid(c) =>
              \A caller \in Principals, b \in BatchIds :
                  linkCertificateErr(caller, b, c) # "ok")
    /\ [][now' >= now /\ C39_Step]_vars

\* Time has moved on past the expiry of a certificate that was never
\* revoked, and a verified batch that does not link it exists.
C39_Witness ==
    \E c \in CertIds :
        /\ Issued(c) /\ certificates[c].status = "Active"
        /\ now > certificates[c].expiryTimestamp
        /\ \E b \in BatchIds : _exists(b) /\ ~alreadyLinked(Linked(b), c)

====
